---- MODULE Spec2Model ----
(***************************************************************************)
(* Crawl engine of mediascrapers.py:                                       *)
(*   - Scraper.scrape_recursive_full_site   (breadth-first, FIFO queue)    *)
(*   - Scraper.scrape_recursive             (bounded-depth recursion)      *)
(*   - InstagramScraper.scrape              (cursor pagination walker)     *)
(* A URL string is represented by its components (what urlparse returns):  *)
(* scheme, netloc, path (a sequence of characters), query, fragment.       *)
(***************************************************************************)
EXTENDS Integers, Sequences, FiniteSets, TLC

VARIABLES
    \* ---- scrape_recursive_full_site ----
    pc,           \* position in the crawl loop
    queue,        \* deque of pending URLs
    visited,      \* set of normalized URLs
    all_tasks,    \* accumulated task list
    sitemap,      \* lines appended to sitemap.txt
    current_url,  \* URL popped from the queue
    attempt,      \* loop variable of "for attempt in range(3)"
    rejected,     \* history: resolved links the host filter dropped since current_url was popped
    navs,         \* history: navigations (_connect) to current_url since it was popped
    abandoned,    \* history: normalized URLs whose retries were exhausted
    scraped,      \* history: normalized URLs on which scrape() was called
    scanned,      \* history: normalized URLs whose links were discovered
    returned,     \* history: the tasks every scrape() call returned, in call order
    delays,       \* history: seconds of every time.sleep since current_url was popped
    outcome,      \* history: how scrape(current_url) ended ("none": not called yet)
    start_url,    \* the url argument of scrape_recursive_full_site
    found,        \* history: normalized target-host links of the documents scanned so far
    \* ---- scrape_recursive ----
    rstate,       \* "running", "returned" or "raised" (an exception left the top-level call)
    rstack,       \* call stack of scrape_recursive, innermost frame last
    rvisited,     \* the visited set the calls share
    rresult,      \* what the top-level call returned
    rdepth,       \* max_depth of the top-level call
    deepest,      \* history: most link-hops from the seed at which a page was fetched (-1: none)
    rwatch,       \* history: at most one link, picked freely, whose call ended on max_depth == 0
    rfailed,      \* history: some scrape() or _connect() call raised
    rreturned,    \* history: the tasks every scrape() call returned, in call order
    \* ---- InstagramScraper.scrape ----
    ppc,          \* position in the walker
    script,       \* the batches the remote API serves, in cursor order
    edges,        \* edges of the current batch
    has_next_page,
    end_cursor,
    tasks,        \* the aggregate result
    idx,          \* position of "for edge in edges"
    requests,     \* history: the cursor of every batch request (None for the first)
    logged,       \* history: number of payloads printed by the except block
    posts         \* history: number of item-detail fetches

fullVars == <<pc, queue, visited, all_tasks, sitemap, current_url, attempt, rejected,
              navs, abandoned, scraped, scanned, returned, delays, outcome,
              start_url, found>>

recVars == <<rstate, rstack, rvisited, rresult, rdepth, deepest,
             rwatch, rfailed, rreturned>>

pagVars == <<ppc, script, edges, has_next_page, end_cursor, tasks, idx, requests,
             logged, posts>>

vars == <<fullVars, recVars, pagVars>>

----------------------------------------------------------------------------
(* Bounds of the model *)
MaxLinks == 2      \* <a href> elements per document
MaxMedia == 1      \* media elements per document
MaxDepth == 2      \* max_depth passed to the top-level scrape_recursive call
MaxPages == 3      \* batches the remote API holds
MaxBatch == 2      \* edges per batch

(* Program constants *)
\* one attempt more than the code makes
Retries_four == 3 + 1
Retries == 3
\* "def scrape_recursive(self, url, max_depth=3, visited=None)"
DefaultDepth == 3
\* "time.sleep(3)" after a failed attempt, "time.sleep(1)" at the end of the loop body
Cooldown == 3
InterPageDelay == 1
TargetHost == "candidteens.net"
OtherHost == "other.com"
None == "None"

----------------------------------------------------------------------------
(* URLs and hrefs *)
URL(s, n, p, q, f) == [scheme |-> s, netloc |-> n, path |-> p, query |-> q, fragment |-> f]

Href(k, s, n, p, q, f) ==
    [kind |-> k, scheme |-> s, netloc |-> n, path |-> p, query |-> q, fragment |-> f]

\* the hrefs a document may carry
Hrefs ==
    { Href("rel",  "",      "",         <<"/", "a">>,      "",    ""),    \* /a
      Href("abs",  "https", TargetHost, <<"/", "a", "/">>, "",    ""),    \* https://T/a/
      Href("abs",  "http",  TargetHost, <<"/", "b">>,      "x=1", "f"),   \* http://T/b?x=1#f
      Href("abs",  "https", OtherHost,  <<"/", "a">>,      "",    ""),    \* https://other.com/a
      Href("frag", "",      "",         <<>>,              "",    "top") } \* #top

\* the seeds of a run
Seeds ==
    { URL("https", TargetHost, <<"/">>, "", ""),
      URL("http",  TargetHost, <<"/", "a">>, "", "") }

\* sequences over S of length at most n
SeqUpTo(S, n) == UNION { [1..k -> S] : k \in 0..n }

\* str.rstrip('/')
RECURSIVE rstrip(_)
rstrip(path) ==
    IF path = <<>> THEN <<>>
    ELSE IF path[Len(path)] = "/" THEN rstrip(SubSeq(path, 1, Len(path) - 1))
    ELSE path

\* normalize_url without the rstrip('/')
normalize_url_noStrip(url) == URL("https", url.netloc, url.path, "", "")

normalize_url(url) == URL("https", url.netloc, rstrip(url.path), "", "")

\* util.url.complete_url: resolve an href against the URL of the document
complete_url(href, base) ==
    IF href.kind = "rel"
    THEN URL(base.scheme, base.netloc, href.path, href.query, href.fragment)
    ELSE URL(href.scheme, href.netloc, href.path, href.query, href.fragment)

\* the <title> of the document served at url
PageTitle(url) == normalize_url(url).path

\* what MediaScraper.scrape returns for a document with n media elements
ScrapeResult(url, n) ==
    [i \in 1..n |-> [media_url |-> URL(url.scheme, url.netloc, <<"/", "m">>, "", ""),
                     label |-> PageTitle(url), hint |-> None]]

Range(s) == { s[i] : i \in DOMAIN s }

----------------------------------------------------------------------------
(* Scraper.scrape_recursive_full_site *)

\* "if href.startswith('#') or 'javascript:' in href.lower(): continue"
SkippedHref(href) == href.kind = "frag" \/ href.kind = "js"

\* the host filter left out
InScope_any(full_url) == TRUE

\* "if parsed.netloc != 'candidteens.net': continue"
InScope(full_url) == full_url.netloc = TargetHost

\* the visited test of link discovery left out
Unvisited_always(full_url, vis) == TRUE

\* "if norm_link not in visited: queue.append(full_url)"
Unvisited(full_url, vis) == normalize_url(full_url) \notin vis

\* the visited test at the head of the loop left out
SeenBefore_never(norm_url, vis) == FALSE

\* "if norm_url in visited: continue"
SeenBefore(norm_url, vis) == norm_url \in vis

\* the link-discovery loop appends nothing
Discovered_none(hrefs, base, vis) == <<>>

\* the URLs the link-discovery loop appends to the queue, in document order
Discovered(hrefs, base, vis) ==
    LET kept == SelectSeq(hrefs, LAMBDA h : ~SkippedHref(h))
        full == [i \in DOMAIN kept |-> complete_url(kept[i], base)]
    IN  SelectSeq(full, LAMBDA u : InScope(u) /\ Unvisited(u, vis))

\* the <a href> lists a parsed document may hold
Documents == SeqUpTo(Hrefs, MaxLinks)

\* the normalized forms of the links of a document that resolve to the target host
InScopeLinks(hrefs, base) ==
    { normalize_url(complete_url(h, base)) :
        h \in { x \in Range(hrefs) : ~SkippedHref(x) /\ InScope(complete_url(x, base)) } }

\* the resolved links the host filter drops
OutOfScope(hrefs, base) ==
    { complete_url(h, base) : h \in { x \in Range(hrefs) : ~SkippedHref(x) /\ ~InScope(complete_url(x, base)) } }

RecIdle ==
    /\ rstate = "idle"
    /\ rstack = <<>>
    /\ rvisited = {}
    /\ rresult = <<>>
    /\ rdepth = 0
    /\ deepest = -1
    /\ rwatch = {}
    /\ rfailed = FALSE
    /\ rreturned = <<>>

PagIdle ==
    /\ ppc = "idle"
    /\ script = <<>>
    /\ edges = <<>>
    /\ has_next_page = FALSE
    /\ end_cursor = 0
    /\ tasks = <<>>
    /\ idx = 1
    /\ requests = <<>>
    /\ logged = 0
    /\ posts = 0

FullInit ==
    /\ RecIdle
    /\ PagIdle
    /\ pc = "loop"
    /\ start_url \in Seeds
    /\ queue = <<start_url>>
    /\ found = {}
    /\ visited = {}
    /\ all_tasks = <<>>
    /\ sitemap = <<>>
    /\ current_url = None
    /\ attempt = 0
    /\ rejected = {}
    /\ navs = 0
    /\ abandoned = {}
    /\ scraped = {}
    /\ scanned = {}
    /\ returned = <<>>
    /\ delays = <<>>
    /\ outcome = "none"

\* Dequeue that reads queue[0] and pops it only when it is not visited yet
Dequeue_peek ==
    /\ pc = "loop"
    /\ queue # <<>>
    /\ LET cur == Head(queue)
           norm_url == normalize_url(cur)
       IN  /\ queue' = IF SeenBefore(norm_url, visited) THEN queue ELSE Tail(queue)
           /\ current_url' = cur
           /\ navs' = 0
           /\ rejected' = {}
           /\ delays' = <<>>
           /\ outcome' = "none"
           /\ IF SeenBefore(norm_url, visited)
              THEN /\ pc' = "loop"
                   /\ UNCHANGED <<visited, sitemap, attempt>>
              ELSE /\ visited' = visited \cup {norm_url}
                   /\ sitemap' = Append(sitemap, norm_url)
                   /\ attempt' = 0
                   /\ pc' = "attempt"
    /\ UNCHANGED <<all_tasks, abandoned, scraped, scanned, returned>>
    /\ UNCHANGED <<start_url, found>>
    /\ UNCHANGED <<recVars, pagVars>>

\* "current_url = queue.popleft()" up to the sitemap write
Dequeue ==
    /\ pc = "loop"
    /\ queue # <<>>
    /\ LET cur == Head(queue)
           norm_url == normalize_url(cur)
       IN  /\ queue' = Tail(queue)
           /\ current_url' = cur
           /\ navs' = 0
           /\ rejected' = {}
           /\ delays' = <<>>
           /\ outcome' = "none"
           /\ IF SeenBefore(norm_url, visited)
              THEN /\ pc' = "loop"
                   /\ UNCHANGED <<visited, sitemap, attempt>>
              ELSE /\ visited' = visited \cup {norm_url}
                   /\ sitemap' = Append(sitemap, norm_url)
                   /\ attempt' = 0
                   /\ pc' = "attempt"
    /\ UNCHANGED <<all_tasks, abandoned, scraped, scanned, returned>>
    /\ UNCHANGED <<start_url, found>>
    /\ UNCHANGED <<recVars, pagVars>>

\* FetchFail without the for-else "continue": an exhausted URL falls through to scrape()
FetchFail_fallthrough ==
    /\ pc = "attempt"
    /\ navs' = navs + 1
    /\ delays' = Append(delays, Cooldown)
    /\ IF attempt + 1 < Retries
       THEN /\ attempt' = attempt + 1
            /\ pc' = "attempt"
            /\ UNCHANGED abandoned
       ELSE /\ abandoned' = abandoned \cup {normalize_url(current_url)}
            /\ pc' = "scrape"
            /\ UNCHANGED attempt
    /\ UNCHANGED <<queue, visited, all_tasks, sitemap,
                   current_url, rejected, scraped, scanned, returned, outcome>>
    /\ UNCHANGED <<start_url, found>>
    /\ UNCHANGED <<recVars, pagVars>>

\* FetchFail that takes an exhausted URL out of visited again
FetchFail_forget ==
    /\ pc = "attempt"
    /\ navs' = navs + 1
    /\ delays' = Append(delays, Cooldown)
    /\ IF attempt + 1 < Retries
       THEN /\ attempt' = attempt + 1
            /\ pc' = "attempt"
            /\ UNCHANGED <<abandoned, visited>>
       ELSE /\ abandoned' = abandoned \cup {normalize_url(current_url)}
            /\ visited' = visited \ {normalize_url(current_url)}
            /\ pc' = "loop"
            /\ UNCHANGED attempt
    /\ UNCHANGED <<queue, all_tasks, sitemap,
                   current_url, rejected, scraped, scanned, returned, outcome>>
    /\ UNCHANGED <<start_url, found>>
    /\ UNCHANGED <<recVars, pagVars>>

\* one pass of the retry loop in which _connect/bs raises
FetchFail ==
    /\ pc = "attempt"
    /\ navs' = navs + 1
    /\ delays' = Append(delays, Cooldown)
    /\ IF attempt + 1 < Retries
       THEN /\ attempt' = attempt + 1
            /\ pc' = "attempt"
            /\ UNCHANGED abandoned
       ELSE /\ abandoned' = abandoned \cup {normalize_url(current_url)}
            /\ pc' = "loop"
            /\ UNCHANGED attempt
    /\ UNCHANGED <<queue, visited, all_tasks, sitemap,
                   current_url, rejected, scraped, scanned, returned, outcome>>
    /\ UNCHANGED <<start_url, found>>
    /\ UNCHANGED <<recVars, pagVars>>

\* one pass of the retry loop in which the document loads; what soup holds is
\* drawn where it is read, in Discover
FetchOk ==
    /\ pc = "attempt"
    /\ navs' = navs + 1
    /\ \E captcha \in BOOLEAN : pc' = IF captcha THEN "captcha" ELSE "scrape"
    /\ UNCHANGED <<queue, visited, all_tasks, sitemap, current_url, attempt,
                   rejected, abandoned, scraped, scanned, returned, delays, outcome>>
    /\ UNCHANGED <<start_url, found>>
    /\ UNCHANGED <<recVars, pagVars>>

\* after input() returns the retry loop fetches the page again
CaptchaAck_retry ==
    /\ pc = "captcha"
    /\ pc' = "attempt"
    /\ UNCHANGED <<queue, visited, all_tasks, sitemap, current_url, attempt, rejected,
                   navs, abandoned, scraped, scanned, returned, delays, outcome>>
    /\ UNCHANGED <<start_url, found>>
    /\ UNCHANGED <<recVars, pagVars>>

\* input() returns
CaptchaAck ==
    /\ pc = "captcha"
    /\ pc' = "scrape"
    /\ UNCHANGED <<queue, visited, all_tasks, sitemap, current_url, attempt, rejected,
                   navs, abandoned, scraped, scanned, returned, delays, outcome>>
    /\ UNCHANGED <<start_url, found>>
    /\ UNCHANGED <<recVars, pagVars>>

\* ScrapeOk with "all_tasks = page_tasks" for "all_tasks.extend(page_tasks)"
ScrapeOk_overwrite ==
    /\ pc = "scrape"
    /\ navs' = navs + 1
    /\ scraped' = scraped \cup {normalize_url(current_url)}
    /\ \E n \in 0..MaxMedia :
         LET page_tasks == ScrapeResult(current_url, n)
         IN  /\ all_tasks' = page_tasks
             /\ returned' = returned \o page_tasks
    /\ outcome' = "ok"
    /\ pc' = "discover"
    /\ UNCHANGED <<queue, visited, sitemap, current_url,
                   attempt, rejected, abandoned, scanned, delays>>
    /\ UNCHANGED <<start_url, found>>
    /\ UNCHANGED <<recVars, pagVars>>

\* ScrapeOk that puts page_tasks in front of all_tasks
ScrapeOk_prepend ==
    /\ pc = "scrape"
    /\ navs' = navs + 1
    /\ scraped' = scraped \cup {normalize_url(current_url)}
    /\ \E n \in 0..MaxMedia :
         LET page_tasks == ScrapeResult(current_url, n)
         IN  /\ all_tasks' = page_tasks \o all_tasks
             /\ returned' = returned \o page_tasks
    /\ outcome' = "ok"
    /\ pc' = "discover"
    /\ UNCHANGED <<queue, visited, sitemap, current_url,
                   attempt, rejected, abandoned, scanned, delays>>
    /\ UNCHANGED <<start_url, found>>
    /\ UNCHANGED <<recVars, pagVars>>

\* self.scrape(current_url) returns its tasks
ScrapeOk ==
    /\ pc = "scrape"
    /\ navs' = navs + 1
    /\ scraped' = scraped \cup {normalize_url(current_url)}
    /\ \E n \in 0..MaxMedia :
         LET page_tasks == ScrapeResult(current_url, n)
         IN  /\ all_tasks' = all_tasks \o page_tasks
             /\ returned' = returned \o page_tasks
    /\ outcome' = "ok"
    /\ pc' = "discover"
    /\ UNCHANGED <<queue, visited, sitemap, current_url,
                   attempt, rejected, abandoned, scanned, delays>>
    /\ UNCHANGED <<start_url, found>>
    /\ UNCHANGED <<recVars, pagVars>>

\* ScrapeFail whose except block ends the pass ("continue")
ScrapeFail_continue ==
    /\ pc = "scrape"
    /\ navs' = navs + 1
    /\ scraped' = scraped \cup {normalize_url(current_url)}
    /\ outcome' = "raised"
    /\ pc' = "loop"
    /\ UNCHANGED <<queue, visited, all_tasks, sitemap, current_url,
                   attempt, rejected, abandoned, scanned, returned, delays>>
    /\ UNCHANGED <<start_url, found>>
    /\ UNCHANGED <<recVars, pagVars>>

\* self.scrape(current_url) raises (navigation or extraction)
ScrapeFail ==
    /\ pc = "scrape"
    /\ navs' = navs + 1
    /\ scraped' = scraped \cup {normalize_url(current_url)}
    /\ outcome' = "raised"
    /\ pc' = "discover"
    /\ UNCHANGED <<queue, visited, all_tasks, sitemap, current_url,
                   attempt, rejected, abandoned, scanned, returned, delays>>
    /\ UNCHANGED <<start_url, found>>
    /\ UNCHANGED <<recVars, pagVars>>

\* "for a in soup.find_all('a', href=True)"
Discover ==
    /\ pc = "discover"
    /\ \E soup \in Documents :
         /\ queue' = queue \o Discovered(soup, current_url, visited)
         /\ rejected' = OutOfScope(soup, current_url)
         /\ found' = found \cup InScopeLinks(soup, current_url)
    /\ scanned' = scanned \cup {normalize_url(current_url)}
    /\ pc' = "sleep"
    /\ UNCHANGED <<visited, all_tasks, sitemap, current_url,
                   attempt, navs, abandoned, scraped, returned, delays, outcome>>
    /\ UNCHANGED start_url
    /\ UNCHANGED <<recVars, pagVars>>

\* the loop body ends without "time.sleep(1)"
Throttle_none ==
    /\ pc = "sleep"
    /\ pc' = "loop"
    /\ UNCHANGED <<queue, visited, all_tasks, sitemap, current_url, attempt, rejected,
                   navs, abandoned, scraped, scanned, returned, delays, outcome>>
    /\ UNCHANGED <<start_url, found>>
    /\ UNCHANGED <<recVars, pagVars>>

\* "time.sleep(1)", the end of the loop body
Throttle ==
    /\ pc = "sleep"
    /\ delays' = Append(delays, InterPageDelay)
    /\ pc' = "loop"
    /\ UNCHANGED <<queue, visited, all_tasks, sitemap, current_url, attempt,
                   rejected, navs, abandoned, scraped, scanned, returned, outcome>>
    /\ UNCHANGED <<start_url, found>>
    /\ UNCHANGED <<recVars, pagVars>>

\* "while queue" fails: "return all_tasks"
FullReturn ==
    /\ pc = "loop"
    /\ queue = <<>>
    /\ pc' = "done"
    /\ UNCHANGED <<queue, visited, all_tasks, sitemap, current_url, attempt, rejected,
                   navs, abandoned, scraped, scanned, returned, delays, outcome>>
    /\ UNCHANGED <<start_url, found>>
    /\ UNCHANGED <<recVars, pagVars>>

FullNext ==
    \/ Dequeue
    \/ FetchFail
    \/ FetchOk
    \/ CaptchaAck
    \/ ScrapeOk
    \/ ScrapeFail
    \/ Discover
    \/ Throttle
    \/ FullReturn

Spec == FullInit /\ [][FullNext]_vars

\* the crawl is one sequential thread: whenever a step is possible one is taken
\* (a fetch returns or raises, input() returns, a sleep ends)
FairSpec == FullInit /\ [][FullNext]_vars /\ WF_vars(FullNext)

----------------------------------------------------------------------------
(* Properties of the full-site crawl *)

NoDup(seq) == \A i, j \in DOMAIN seq : seq[i] = seq[j] => i = j

\* the loop body is working on current_url
Busy == pc \in {"attempt", "captcha", "scrape", "discover", "sleep"}

C2_SitemapNoDup == NoDup(sitemap)

\* a popped URL has just been discarded because its normalized form was logged before
C2_Witness ==
    /\ pc = "loop"
    /\ navs = 0
    /\ sitemap # <<>>
    /\ normalize_url(current_url) \in Range(sitemap)

\* C3 as stated: no queued URL has its normalized form in the visited set.
C3_FrontierUnvisited == \A i \in DOMAIN queue : normalize_url(queue[i]) \notin visited

\* C3 amended: a URL is appended to the queue only while its normalized form
\* is not in the visited set (a URL enqueued twice stays queued after its
\* first copy was visited, and is discarded when popped).
C3_EnqueuedUnvisited ==
    [][\A i \in (Len(queue) + 1)..Len(queue') : normalize_url(queue'[i]) \notin visited']_vars

C3_Witness ==
    /\ pc = "sleep"
    /\ Len(queue) >= 2
    /\ \E i \in DOMAIN queue : normalize_url(queue[i]) \in visited

\* C5: a discovered link whose resolved host is not the target host is never
\* in the queue.
C5_HostFilter ==
    /\ \A i \in DOMAIN queue : queue[i].netloc = TargetHost
    /\ \A u \in rejected : u.netloc # TargetHost /\ u \notin Range(queue)

C5_Witness == pc = "sleep" /\ rejected # {} /\ queue # <<>>

\* C6: a URL is abandoned after exactly 3 failed attempts, is neither scraped
\* nor scanned for links, and the loop goes on with the queue.
C6_RetryExhaustion ==
    /\ \A n \in abandoned : n \notin scraped /\ n \notin scanned
    /\ pc = "attempt" => navs = attempt /\ attempt < 3
    /\ (pc = "loop" /\ navs > 0 /\ normalize_url(current_url) \in abandoned) => navs = 3
    /\ (pc \in {"captcha", "scrape", "discover", "sleep"}) =>
           normalize_url(current_url) \notin abandoned

\* a URL was abandoned and a later one is being scraped
C6_Witness == abandoned # {} /\ pc = "discover" /\ navs = 2

\* C8: at termination the task list holds what scrape() returned for the other
\* URLs, nothing of an abandoned URL, and the sitemap lists every attempted URL.
C8_PartialFailure ==
    pc = "done" =>
        /\ all_tasks = returned
        /\ \A n \in abandoned : \A i \in DOMAIN all_tasks : all_tasks[i].label # PageTitle(n)
        /\ Range(sitemap) = visited
        /\ abandoned \subseteq Range(sitemap)
        /\ scraped = visited \ abandoned

C8_Witness ==
    /\ pc = "done"
    /\ Cardinality(abandoned) = 1
    /\ Len(sitemap) = 3
    /\ Len(all_tasks) = 2

\* URLs over which normalization is compared
UrlVariants ==
    { URL(s, n, p, q, f) :
        s \in {"http", "https"}, n \in {TargetHost, OtherHost},
        p \in {<<>>, <<"/">>, <<"/", "a">>, <<"/", "a", "/">>, <<"/", "b">>},
        q \in {"", "x=1"}, f \in {"", "f"} }

\* u and v differ at most by scheme, query, fragment and one trailing slash
SameUpToSlash(u, v) ==
    /\ u.netloc = v.netloc
    /\ \/ u.path = v.path
       \/ u.path = v.path \o <<"/">>
       \/ v.path = u.path \o <<"/">>

\* normalize_url agrees on every two such URLs
NormalizationAgrees ==
    \A u, v \in UrlVariants : SameUpToSlash(u, v) => normalize_url(u) = normalize_url(v)

\* C9: URLs that differ only by a trailing slash, the scheme, the query or the
\* fragment normalize identically, so at most one of them is logged and
\* fetched in a run.
C9_NormalizationEquivalence ==
    /\ NormalizationAgrees
    /\ \A i, j \in DOMAIN sitemap : i # j => ~SameUpToSlash(sitemap[i], sitemap[j])
    /\ Busy => normalize_url(current_url) = sitemap[Len(sitemap)]
    /\ \A i \in DOMAIN queue : Busy /\ SameUpToSlash(queue[i], current_url) =>
           normalize_url(queue[i]) \in visited

\* /a is being processed while its variant /a/ waits in the queue
C9_Witness ==
    /\ pc = "sleep"
    /\ current_url.path = <<"/", "a">>
    /\ \E i \in DOMAIN queue : queue[i].path = <<"/", "a", "/">>

\* C12: every crawl reaches the state where the queue is empty and the
\* accumulated task list is returned.
C12_Terminates == <>(pc = "done" /\ queue = <<>> /\ all_tasks = returned)

\* a crawl over three pages has returned; one of them was abandoned and one
\* yielded no task
C12_Witness ==
    /\ pc = "done"
    /\ queue = <<>>
    /\ Len(sitemap) = 3
    /\ Cardinality(abandoned) = 1
    /\ Len(all_tasks) = 1

C15_AlwaysThrottled ==
    (pc = "loop" /\ navs > 0) =>
        /\ delays # <<>>
        /\ delays[Len(delays)] = InterPageDelay

\* C15 amended: a URL whose fetch succeeded is followed by exactly one
\* inter-page delay, also when extraction raised; an abandoned URL is followed
\* by none, only by the cooldown slept after each of its 3 failed attempts.
C15_ThrottledUnlessAbandoned ==
    (pc = "loop" /\ navs > 0) =>
        IF normalize_url(current_url) \in abandoned
        THEN delays = [i \in 1..Retries |-> Cooldown]
        ELSE /\ delays # <<>>
             /\ delays[Len(delays)] = InterPageDelay
             /\ \A i \in 1..(Len(delays) - 1) : delays[i] = Cooldown

\* after an abandoned page, a page whose extraction raised has been processed
\* and followed by the inter-page delay
C15_Witness ==
    /\ pc = "loop"
    /\ abandoned # {}
    /\ outcome = "raised"
    /\ delays = <<InterPageDelay>>

\* position in visit order of the page a task was extracted from
VisitOf(task) == CHOOSE k \in DOMAIN sitemap : PageTitle(sitemap[k]) = task.label

C19_ExtractionFailureContained ==
    outcome = "raised" =>
        /\ all_tasks = returned
        /\ pc \in {"discover", "sleep", "loop", "done"}
        /\ pc # "discover" => normalize_url(current_url) \in scanned
        /\ pc = "done" => queue = <<>>

\* the extractor raised on the second page after the first page gave a task;
\* the links of the second page were discovered and a URL is waiting
C19_Witness ==
    /\ outcome = "raised"
    /\ pc = "loop"
    /\ Len(sitemap) = 2
    /\ Len(all_tasks) = 1
    /\ normalize_url(current_url) \in scanned
    /\ queue # <<>>

\* C23: when a crawl without an abandoned URL has terminated, the visited set
\* holds the normalized seed and every target-host link of every visited page
\* (so everything reachable from the seed), and each was logged exactly once.
C23_Coverage ==
    (pc = "done" /\ abandoned = {}) =>
        /\ normalize_url(start_url) \in visited
        /\ scanned = visited
        /\ found \subseteq visited
        /\ \A n \in visited : Cardinality({ k \in DOMAIN sitemap : sitemap[k] = n }) = 1

\* a crawl without failures has terminated after visiting the seed and the two
\* pages found through links
C23_Witness ==
    /\ pc = "done"
    /\ abandoned = {}
    /\ Cardinality(found) = 2
    /\ Cardinality(visited) = 3
    /\ normalize_url(start_url) \notin found

\* C24: an abandoned URL stays visited and is logged once; a copy of it that is
\* popped later is discarded without a fetch, and the loop body never works on
\* it again.
C24_AbandonedNotRetried ==
    /\ abandoned \subseteq visited
    /\ Busy => normalize_url(current_url) \notin abandoned
    /\ (pc = "loop" /\ sitemap # <<>> /\ normalize_url(current_url) \in abandoned) =>
           navs \in {0, Retries}
    /\ \A n \in abandoned : Cardinality({ k \in DOMAIN sitemap : sitemap[k] = n }) = 1

\* a page linked from a scanned page was abandoned, and a second copy of it
\* has been popped and discarded without a fetch
C24_Witness ==
    /\ Len(sitemap) >= 2
    /\ pc = "loop"
    /\ navs = 0
    /\ normalize_url(current_url) \in abandoned
    /\ normalize_url(current_url) \in found

----------------------------------------------------------------------------
(* Scraper.scrape_recursive *)

FullIdle ==
    /\ pc = "idle"
    /\ queue = <<>>
    /\ visited = {}
    /\ all_tasks = <<>>
    /\ sitemap = <<>>
    /\ current_url = None
    /\ attempt = 0
    /\ rejected = {}
    /\ navs = 0
    /\ abandoned = {}
    /\ scraped = {}
    /\ scanned = {}
    /\ returned = <<>>
    /\ delays = <<>>
    /\ outcome = "none"
    /\ start_url = None
    /\ found = {}

\* a call of scrape_recursive: i counts the elements of links the for loop has
\* taken; what links holds is drawn where the loop reads it
Frame(url, max_depth) ==
    [url |-> url, max_depth |-> max_depth, pc |-> "enter", i |-> 0, tasks |-> <<>>]

Top == rstack[Len(rstack)]

Hops == Len(rstack) - 1

SetTop(f) == [rstack EXCEPT ![Len(rstack)] = f]

\* the recursive call passes max_depth unchanged
ChildDepth_same(max_depth) == max_depth

\* "max_depth=max_depth - 1"
ChildDepth(max_depth) == max_depth - 1

\* "if a['href'].startswith('/') or a['href'].startswith('http')"
Followed(href) == href.kind = "rel" \/ href.kind = "abs"

\* the URLs the list comprehension can put into links
Links(base) == { complete_url(href, base) : href \in { h \in Hrefs : Followed(h) } }

\* Return that puts the result of a link in front of the caller's tasks
Return_prepend(result) ==
    IF Len(rstack) = 1
    THEN /\ rstack' = <<>>
         /\ rresult' = result
         /\ rstate' = "returned"
    ELSE LET caller == rstack[Len(rstack) - 1]
         IN  /\ rstack' = [SubSeq(rstack, 1, Len(rstack) - 1) EXCEPT ![Len(rstack) - 1] =
                              [caller EXCEPT !.tasks = result \o caller.tasks, !.i = caller.i + 1]]
             /\ UNCHANGED <<rresult, rstate>>

\* the innermost call returns result: "tasks += ..." in its caller, or the
\* value of the top-level call
Return(result) ==
    IF Len(rstack) = 1
    THEN /\ rstack' = <<>>
         /\ rresult' = result
         /\ rstate' = "returned"
    ELSE LET caller == rstack[Len(rstack) - 1]
         IN  /\ rstack' = [SubSeq(rstack, 1, Len(rstack) - 1) EXCEPT ![Len(rstack) - 1] =
                              [caller EXCEPT !.tasks = caller.tasks \o result, !.i = caller.i + 1]]
             /\ UNCHANGED <<rresult, rstate>>

RecInit ==
    /\ FullIdle
    /\ PagIdle
    /\ rstate = "running"
    /\ \E seed \in Seeds, d \in (0..MaxDepth) \cup {DefaultDepth} :
         /\ rstack = <<Frame(seed, d)>>
         /\ rdepth = d
    /\ rwatch = {}
    /\ rfailed = FALSE
    /\ rreturned = <<>>
    /\ rvisited = {}
    /\ rresult = <<>>
    /\ deepest = -1

\* the link watched after the call on Top.url has passed the stop rule: a link
\* that ends on max_depth == 0 may become the watched one; the watched link is
\* owed a fetch once a call with max_depth >= 2 reaches its page again (the
\* link is then fewer than rdepth hops from the seed); it is dropped when it
\* is fetched. Only a page two or more hops from the seed can be reached again
\* on a shorter path, so only the links of such pages are watched, and none
\* is watched once a call has raised
Watched ==
    LET url == Top.url
        page == rstack[Len(rstack) - 1].url
    IN  IF rfailed
        THEN {{}}
        ELSE IF url \notin rvisited /\ Top.max_depth = 0
        THEN IF rwatch = {} /\ Len(rstack) > 3
             THEN {{}, {[page |-> page, link |-> url, owed |-> FALSE]}}
             ELSE {rwatch}
        ELSE IF url \in rvisited
        THEN {{ [w EXCEPT !.owed = w.owed \/ (w.page = url /\ Top.max_depth >= 2)] : w \in rwatch }}
        ELSE {{ w \in rwatch : w.link # url }}

\* "if url in visited or max_depth == 0: return []", "visited.add(url)"
RecEnter ==
    /\ rstate = "running"
    /\ Top.pc = "enter"
    /\ IF Top.url \in rvisited \/ Top.max_depth = 0
       THEN /\ Return(<<>>)
            /\ UNCHANGED rvisited
       ELSE /\ rvisited' = rvisited \cup {Top.url}
            /\ rstack' = SetTop([Top EXCEPT !.pc = "scrape"])
            /\ UNCHANGED <<rresult, rstate>>
    /\ rwatch' \in Watched
    /\ UNCHANGED <<rdepth, deepest, rfailed, rreturned>>
    /\ UNCHANGED <<fullVars, pagVars>>

\* "tasks = self.scrape(url)" returns; the document has no media element or
\* MaxMedia of them
RecScrapeOk ==
    /\ rstate = "running"
    /\ Top.pc = "scrape"
    /\ deepest' = IF Hops > deepest THEN Hops ELSE deepest
    /\ \E n \in {0, MaxMedia} :
         /\ rstack' = SetTop([Top EXCEPT !.pc = "connect", !.tasks = ScrapeResult(Top.url, n)])
         /\ rreturned' = rreturned \o ScrapeResult(Top.url, n)
    /\ UNCHANGED <<rstate, rvisited, rresult, rdepth, rwatch, rfailed>>
    /\ UNCHANGED <<fullVars, pagVars>>

\* self.scrape(url) raises: "return []"
RecScrapeFail ==
    /\ rstate = "running"
    /\ Top.pc = "scrape"
    /\ deepest' = IF Hops > deepest THEN Hops ELSE deepest
    /\ Return(<<>>)
    /\ rfailed' = TRUE
    /\ rwatch' = {}
    /\ UNCHANGED <<rvisited, rdepth, rreturned>>
    /\ UNCHANGED <<fullVars, pagVars>>

\* "self._connect(url)" and the parse of the links succeed
RecParseOk ==
    /\ rstate = "running"
    /\ Top.pc = "connect"
    /\ deepest' = IF Hops > deepest THEN Hops ELSE deepest
    /\ rstack' = SetTop([Top EXCEPT !.pc = "loop", !.i = 0])
    /\ UNCHANGED <<rstate, rvisited, rresult, rdepth, rwatch, rfailed, rreturned>>
    /\ UNCHANGED <<fullVars, pagVars>>

\* "self._connect(url)" raises outside the try block: the exception unwinds
\* every caller
RecParseFail ==
    /\ rstate = "running"
    /\ Top.pc = "connect"
    /\ deepest' = IF Hops > deepest THEN Hops ELSE deepest
    /\ rstack' = <<>>
    /\ rstate' = "raised"
    /\ rfailed' = TRUE
    /\ rwatch' = {}
    /\ UNCHANGED <<rvisited, rresult, rdepth, rreturned>>
    /\ UNCHANGED <<fullVars, pagVars>>

\* "for link in links: tasks += self.scrape_recursive(link, ...)": the call
RecDescend ==
    /\ rstate = "running"
    /\ Top.pc = "loop"
    /\ Top.i < MaxLinks
    /\ \E link \in Links(Top.url) :
         rstack' = Append(rstack, Frame(link, ChildDepth(Top.max_depth)))
    /\ UNCHANGED <<rstate, rvisited, rresult, rdepth, deepest, rwatch, rfailed, rreturned>>
    /\ UNCHANGED <<fullVars, pagVars>>

\* links is exhausted: "return tasks"
RecFinish ==
    /\ rstate = "running"
    /\ Top.pc = "loop"
    /\ Return(Top.tasks)
    /\ UNCHANGED <<rvisited, rdepth, deepest, rwatch, rfailed, rreturned>>
    /\ UNCHANGED <<fullVars, pagVars>>

RecNext ==
    \/ RecEnter
    \/ RecScrapeOk
    \/ RecScrapeFail
    \/ RecParseOk
    \/ RecParseFail
    \/ RecDescend
    \/ RecFinish

RecSpec == RecInit /\ [][RecNext]_vars

\* C4: with max_depth = d no page more than d link-hops from the seed is
\* fetched, and with d = 0 nothing is fetched.
C4_DepthBound ==
    /\ deepest <= rdepth
    /\ rdepth = 0 => deepest = -1

\* with max_depth = 2 a page one hop away was fetched, and the call for its
\* first link (two hops away) has returned without a fetch
C4_Witness ==
    /\ rdepth = 2
    /\ Len(rstack) = 2
    /\ Top.pc = "loop"
    /\ Top.max_depth = 1
    /\ Top.i = 1
    /\ deepest = 1

\* C10 as stated: no failure while processing a URL propagates out of
\* scrape_recursive.
C10_NeverPropagates == rstate # "raised"

\* C17 as stated: scrape_recursive passes the stop rule and fetches a URL only
\* if no URL with the same normalized form has been visited in the run.
C17_StopRuleNormalized ==
    (rstate = "running" /\ rstack # <<>> /\ Top.pc = "scrape") =>
        \A u \in rvisited \ {Top.url} : normalize_url(u) # normalize_url(Top.url)

\* C22 as stated: with no failures every URL within fewer than max_depth hops
\* of the seed is fetched, whatever the order of discovery: a link that ended
\* on max_depth == 0 and whose page is later reached with max_depth >= 2 has
\* been fetched when the top-level call returns.
C22_Coverage ==
    (rstate = "returned" /\ ~rfailed) =>
        \A w \in rwatch : w.owed => w.link \in rvisited

\* the tasks held by the k outermost calls, outermost first
RECURSIVE Held(_)
Held(k) == IF k = 0 THEN <<>> ELSE Held(k - 1) \o rstack[k].tasks

\* C21: what a call of scrape_recursive holds, and what the top-level call
\* returns, is pre-order: the page's own tasks, then the results of its links
\* in link order, each expanded the same way; a link that is visited or out of
\* depth adds nothing. The scrape() calls are made in that order, so the tasks
\* of the calls in progress, outermost first, are the tasks scrape() returned
\* so far.
C21_PreOrder ==
    /\ rstate = "running" => Held(Len(rstack)) = rreturned
    /\ rstate = "returned" => rresult = rreturned

\* a call with max_depth = 3 has returned the tasks of four pages: the seed, a
\* page it links to, a page two hops away, and an off-site page
C21_Witness ==
    /\ rstate = "returned"
    /\ rdepth = 3
    /\ Len(rresult) = 4
    /\ rresult[1].label = <<>>
    /\ rresult[2].label = <<"/", "a">>
    /\ rresult[3].label = <<"/", "b">>
    /\ rresult[4].media_url.netloc = OtherHost

----------------------------------------------------------------------------
(* InstagramScraper.scrape *)

username == [kind |-> "label", of |-> <<0, 0>>]

\* a batch response: n edges and page_info.has_next_page; the batch served at
\* position b of the script carries end_cursor b
Batches == [n : 0..MaxBatch, has_next_page : BOOLEAN]

Scripts == UNION { [1..k -> Batches] : k \in 1..MaxPages }

\* the shortcodes of the edges of batch b
EdgesOf(b) == [k \in 1..script[b].n |-> <<b, k>>]

\* the batch the API serves after cursor c (c = 0: the first request); past
\* the end of the script it keeps serving the last batch
Served(c) == IF c + 1 <= Len(script) THEN c + 1 ELSE Len(script)

\* util.instagram.parse_node on the post of a shortcode
parse_node(shortcode) ==
    <<[kind |-> "media", of |-> shortcode], [kind |-> "name", of |-> shortcode]>>

\* the walker stops after the first batch whatever has_next_page says
MorePages_never(flag) == FALSE

\* "if has_next_page:"
MorePages(flag) == flag

\* the keys a batch response can lack: a response without page_info lacks
\* has_next_page and end_cursor, one without the media object lacks all three
Fields == {"edges", "has_next_page", "end_cursor"}

\* the batch request always carries the cursor of the first response
After_first(cursor) == 1

\* "self.getJsonData(user_id, end_cursor)": the cursor the request carries
After(cursor) == cursor

PagInit ==
    /\ FullIdle
    /\ RecIdle
    /\ ppc = "start"
    /\ script \in Scripts
    /\ edges = <<>>
    /\ has_next_page = FALSE
    /\ end_cursor = 0
    /\ tasks = <<>>
    /\ idx = 1
    /\ requests = <<>>
    /\ logged = 0
    /\ posts = 0

\* "data = self.getJsonData(username)" up to "tasks = []"; no try block covers
\* the reads of the first response
PagStart ==
    /\ ppc = "start"
    /\ requests' = Append(requests, None)
    /\ \E missing \in SUBSET Fields :
         IF missing = {}
         THEN /\ edges' = EdgesOf(Served(0))
              /\ has_next_page' = script[Served(0)].has_next_page
              /\ end_cursor' = Served(0)
              /\ ppc' = "while"
         ELSE /\ ppc' = "raised"
              /\ UNCHANGED <<edges, has_next_page, end_cursor>>
    /\ tasks' = <<>>
    /\ UNCHANGED <<script, idx, logged, posts>>
    /\ UNCHANGED <<fullVars, recVars>>

\* "while len(edges) > 1:"
PagWhile_short ==
    /\ ppc = "while"
    /\ IF Len(edges) > 1
       THEN /\ idx' = 1
            /\ ppc' = "items"
       ELSE /\ ppc' = "done"
            /\ UNCHANGED idx
    /\ UNCHANGED <<script, edges, has_next_page, end_cursor, tasks, requests, logged, posts>>
    /\ UNCHANGED <<fullVars, recVars>>

\* "while len(edges) > 0:"
PagWhile ==
    /\ ppc = "while"
    /\ IF Len(edges) > 0
       THEN /\ idx' = 1
            /\ ppc' = "items"
       ELSE /\ ppc' = "done"
            /\ UNCHANGED idx
    /\ UNCHANGED <<script, edges, has_next_page, end_cursor, tasks, requests, logged, posts>>
    /\ UNCHANGED <<fullVars, recVars>>

\* one pass of "for edge in edges": the post is fetched and parsed
PagItem ==
    /\ ppc = "items"
    /\ idx <= Len(edges)
    /\ posts' = posts + 1
    /\ LET task == parse_node(edges[idx])
       IN  tasks' = tasks \o <<task[1], username, task[2]>>
    /\ idx' = idx + 1
    /\ UNCHANGED <<ppc, script, edges, has_next_page, end_cursor, requests, logged>>
    /\ UNCHANGED <<fullVars, recVars>>

\* "if has_next_page: ... else: break": only the read of edges is inside the
\* try block; the reads of has_next_page and end_cursor follow it
PagAdvance ==
    /\ ppc = "items"
    /\ idx > Len(edges)
    /\ IF MorePages(has_next_page)
       THEN /\ Len(requests) <= MaxPages
            /\ requests' = Append(requests, After(end_cursor))
            /\ \E missing \in SUBSET Fields :
                 LET b == Served(end_cursor)
                 IN  /\ IF "edges" \in missing
                        THEN /\ logged' = logged + 1
                             /\ UNCHANGED edges
                        ELSE /\ edges' = EdgesOf(b)
                             /\ UNCHANGED logged
                     /\ has_next_page' = IF "has_next_page" \in missing
                                         THEN has_next_page
                                         ELSE script[b].has_next_page
                     /\ end_cursor' = IF missing \cap {"has_next_page", "end_cursor"} # {}
                                      THEN end_cursor
                                      ELSE b
                     /\ ppc' = IF missing \cap {"has_next_page", "end_cursor"} # {}
                               THEN "raised"
                               ELSE "while"
       ELSE /\ ppc' = "done"
            /\ UNCHANGED <<edges, has_next_page, end_cursor, requests, logged>>
    /\ UNCHANGED <<script, tasks, idx, posts>>
    /\ UNCHANGED <<fullVars, recVars>>

PagNext ==
    \/ PagStart
    \/ PagWhile
    \/ PagItem
    \/ PagAdvance

PagSpec == PagInit /\ [][PagNext]_vars

\* hasMore is true for batches 1..k and false for batch k+1
TrueThenFalse(sc) ==
    /\ ~sc[Len(sc)].has_next_page
    /\ \A b \in 1..(Len(sc) - 1) : sc[b].has_next_page

\* k+1 batch requests were issued and every item of every batch is in the result
WalkedAll ==
    /\ Len(requests) = Len(script)
    /\ \A b \in 1..Len(script) : \A k \in 1..script[b].n :
         [kind |-> "media", of |-> <<b, k>>] \in Range(tasks)

C11_NeverPropagates == Len(requests) >= 2 => ppc # "raised"

\* C13 as stated: the returned list has exactly one element, a Task triple,
\* per Task the per-item parser produced (one per item-detail fetch).
C13_OneElementPerTask == ppc = "done" => Len(tasks) = posts

C20_CursorProtocol ==
    [][Len(requests') > Len(requests) =>
         IF requests = <<>>
         THEN requests' = <<None>>
         ELSE /\ Len(requests') = Len(requests) + 1
              /\ SubSeq(requests', 1, Len(requests)) = requests
              /\ requests'[Len(requests')] =
                     Served(IF Len(requests) = 1 THEN 0 ELSE requests[Len(requests)])
              /\ ppc = "items"
              /\ idx = Len(edges) + 1
              /\ posts' = posts]_vars

\* three batches of two, one and two items were requested, the third after
\* the three items of the first two were fetched
C20_Witness ==
    /\ requests = <<None, 1, 2>>
    /\ logged = 0
    /\ posts = 3
    /\ ppc = "while"
    /\ Len(edges) = 2

====
